---- MODULE Spec2Model ----
(***************************************************************************)
(* SPF checker (src/app.js): the DNS-over-HTTPS resolver wrapper, the      *)
(* regular-expression scans of an SPF record, the recursive DNS-lookup     *)
(* count with its visited set and depth limit, and the checkSPF flow that  *)
(* drives them and writes the results panel.                               *)
(*                                                                         *)
(* Text is a sequence of one-character strings, so that the regular        *)
(* expressions of the source are modelled by what they match.              *)
(***************************************************************************)
EXTENDS Integers, Sequences, FiniteSets, TLC

(***************************************************************************)
(* Characters and the character classes of JavaScript regular expressions. *)
(***************************************************************************)
Lower == {"a","b","c","d","e","f","g","h","i","j","k","l","m",
          "n","o","p","q","r","s","t","u","v","w","x","y","z"}
Upper == {"A","B","C","D","E","F","G","H","I","J","K","L","M",
          "N","O","P","Q","R","S","T","U","V","W","X","Y","Z"}
Digit == {"0","1","2","3","4","5","6","7","8","9"}
\* \w of a regular expression
WordChar == Lower \cup Upper \cup Digit \cup {"_"}
\* \s of a regular expression (the white space the model's texts use)
SpaceChar == {" ", "\t"}

\* JavaScript passes arguments by value: Eager evaluates x once and hands the
\* value to Op
Eager(x, Op(_)) == CHOOSE r \in {Op(v) : v \in {x}} : TRUE

\* s.substring(i-1, j) with 1-based inclusive bounds
Sub(s, i, j) == IF j < i THEN <<>> ELSE SubSeq(s, i, j)

\* the literal lit occurs in s at position i
LitAt(s, i, lit) ==
    /\ i >= 1
    /\ i + Len(lit) - 1 <= Len(s)
    /\ \A k \in 1..Len(lit) : s[i + k - 1] = lit[k]

\* s.startsWith(lit)
StartsWith(s, lit) == LitAt(s, 1, lit)

\* where a scan of s that starts at position i first finds a position that
\* satisfies At, or Len(s) + 1 when it finds none
NextAt(s, i, At(_)) ==
    Eager({j \in i..Len(s) : At(j)}, LAMBDA found :
        IF found = {} THEN Len(s) + 1
        ELSE CHOOSE j \in found : \A k \in found : j <= k)

\* end of the run of non-space characters that starts at position i
RunEnd(s, i) == NextAt(s, i, LAMBDA j : j = Len(s) \/ s[j + 1] \in SpaceChar)

\* the capture groups of /lit([^\s]+)/g, in order of appearance: each match
\* is lit followed by the longest non-empty run of non-space characters, and
\* the scan resumes after the match
RECURSIVE CaptureFrom(_, _, _)
CaptureFrom(s, lit, i) ==
    Eager(NextAt(s, i, LAMBDA j : /\ LitAt(s, j, lit)
                                  /\ j + Len(lit) <= Len(s)
                                  /\ s[j + Len(lit)] \notin SpaceChar),
          LAMBDA m :
        IF m > Len(s) THEN <<>>
        ELSE Eager(RunEnd(s, m + Len(lit)), LAMBDA e :
                 <<Sub(s, m + Len(lit), e)>> \o CaptureFrom(s, lit, e + 1)))

Captures(s0, lit) == Eager(s0, LAMBDA s : CaptureFrom(s, lit, 1))

\* (s.match(/lit/g) || []).length for a literal pattern: the non-overlapping
\* occurrences of lit, scanning left to right
RECURSIVE CountLitFrom(_, _, _)
CountLitFrom(s, lit, i) ==
    Eager(NextAt(s, i, LAMBDA j : LitAt(s, j, lit)), LAMBDA m :
        IF m > Len(s) THEN 0 ELSE 1 + CountLitFrom(s, lit, m + Len(lit)))

CountLit(s0, lit) == Eager(s0, LAMBDA s : CountLitFrom(s, lit, 1))

\* \b at the gap before position i of s (between s[i-1] and s[i])
WordBoundary(s, i) ==
    LET before == i - 1 >= 1 /\ i - 1 <= Len(s) /\ s[i - 1] \in WordChar
        after  == i >= 1 /\ i <= Len(s) /\ s[i] \in WordChar
    IN  before # after

\* (s.match(/\bw\b/g) || []).length for a word w of word characters
RECURSIVE CountWordFrom(_, _, _)
CountWordFrom(s, w, i) ==
    Eager(NextAt(s, i, LAMBDA j : /\ LitAt(s, j, w)
                                  /\ WordBoundary(s, j)
                                  /\ WordBoundary(s, j + Len(w))),
          LAMBDA m :
        IF m > Len(s) THEN 0 ELSE 1 + CountWordFrom(s, w, m + Len(w)))

CountWord(s0, w) == Eager(s0, LAMBDA s : CountWordFrom(s, w, 1))


(***************************************************************************)
(* String operations of the source.                                        *)
(***************************************************************************)
UpperSeq == <<"A","B","C","D","E","F","G","H","I","J","K","L","M","N","O","P","Q","R","S","T","U","V","W","X","Y","Z">>
LowerSeq == <<"a","b","c","d","e","f","g","h","i","j","k","l","m","n","o","p","q","r","s","t","u","v","w","x","y","z">>

\* one character of String.prototype.toLowerCase
LowerChar(c) ==
    IF c \in Upper
    THEN LowerSeq[CHOOSE k \in 1..Len(UpperSeq) : UpperSeq[k] = c]
    ELSE c

ToLowerCase(s) == [k \in 1..Len(s) |-> LowerChar(s[k])]

\* String.prototype.trim: without the white space at both ends
Trim(s0) ==
    Eager(s0, LAMBDA s :
        LET kept == {k \in 1..Len(s) : s[k] \notin SpaceChar}
        IN  IF kept = {} THEN <<>>
            ELSE Sub(s, CHOOSE k \in kept : \A j \in kept : k <= j,
                        CHOOSE k \in kept : \A j \in kept : k >= j))

\* s.split(sep) for a one-character separator: the pieces between the
\* occurrences of sep
RECURSIVE SplitFrom(_, _, _)
SplitFrom(s, sep, i) ==
    Eager(NextAt(s, i, LAMBDA j : s[j] = sep), LAMBDA m :
        IF m > Len(s) THEN <<Sub(s, i, Len(s))>>
        ELSE <<Sub(s, i, m - 1)>> \o SplitFrom(s, sep, m + 1))

Split(s0, sep) == Eager(s0, LAMBDA s : SplitFrom(s, sep, 1))

AlNum == Lower \cup Upper \cup Digit
MaxLabelLen == 63
MinTldLen == 2

\* [a-zA-Z0-9]([a-zA-Z0-9\-]{0,61}[a-zA-Z0-9])? : one label of the domain
IsLabel(l) ==
    /\ Len(l) >= 1
    /\ Len(l) <= MaxLabelLen
    /\ l[1] \in AlNum
    /\ l[Len(l)] \in AlNum
    /\ \A k \in 1..Len(l) : l[k] \in AlNum \cup {"-"}

\* [a-zA-Z]{2,} : the last label
IsTld(l) ==
    /\ Len(l) >= MinTldLen
    /\ \A k \in 1..Len(l) : l[k] \in Lower \cup Upper

\* validateDomain: the domain matches
\* /^([a-zA-Z0-9]([a-zA-Z0-9\-]{0,61}[a-zA-Z0-9])?\.)+[a-zA-Z]{2,}$/
validateDomain(domain) ==
    /\ domain # <<>>
    /\ LET parts == Split(domain, ".")
       IN  /\ Len(parts) >= 2
           /\ \A k \in 1..(Len(parts) - 1) : IsLabel(parts[k])
           /\ IsTld(parts[Len(parts)])

(***************************************************************************)
(* Literals of the source.                                                 *)
(***************************************************************************)
kwInclude  == <<"i","n","c","l","u","d","e",":">>
kwRedirect == <<"r","e","d","i","r","e","c","t","=">>
kwExists   == <<"e","x","i","s","t","s",":">>
wordA      == <<"a">>
wordMx     == <<"m","x">>
wordPtr    == <<"p","t","r">>
vSpf1      == <<"v","=","s","p","f","1">>
Quote      == <<"\"">>

msgNoRecord     == <<"N","o"," ","S","P","F"," ","r","e","c","o","r","d"," ","f","o","u","n","d">>
msgErrorPrefix  == <<"E","r","r","o","r",":"," ">>
msgLookupFailed == <<"D","N","S"," ","l","o","o","k","u","p"," ","f","a","i","l","e","d",":"," ">>
msgQueryFailed  == <<"D","N","S"," ","q","u","e","r","y"," ","f","a","i","l","e","d"," ","-"," ","d","o","m","a","i","n"," ","m","a","y"," ","n","o","t"," ","e","x","i","s","t">>
msgEnterDomain  == <<"P","l","e","a","s","e"," ","e","n","t","e","r"," ","a"," ","d","o","m","a","i","n"," ","n","a","m","e">>
msgInvalid      == <<"P","l","e","a","s","e"," ","e","n","t","e","r"," ","a"," ","v","a","l","i","d"," ","d","o","m","a","i","n"," ","n","a","m","e">>
msgNoRecordFor  == <<"N","o"," ","S","P","F"," ","r","e","c","o","r","d"," ","f","o","u","n","d"," ","f","o","r"," ">>
msgErrorCheck   == <<"E","r","r","o","r"," ","c","h","e","c","k","i","n","g"," ","S","P","F",":"," ">>

(***************************************************************************)
(* The resolver's answer and fetchSPFRecords.                              *)
(*                                                                         *)
(* A response is what the DNS-over-HTTPS endpoint gives back for one name: *)
(*   rejected   fetch() rejected (transport failure), with its message     *)
(*   ok         response.ok                                                *)
(*   statusText response.statusText                                        *)
(*   Status     data.Status                                                *)
(*   hasAnswer  data.Answer is present                                     *)
(*   Answer     data.Answer, a sequence of [type, data]                    *)
(***************************************************************************)
TypeTXT == 16

\* record.data.replace(/^"|"$/g, '')
StripQuotes(s) ==
    Eager(IF Len(s) > 0 /\ s[1] = Quote[1] THEN Tail(s) ELSE s, LAMBDA s1 :
        IF Len(s1) > 0 /\ s1[Len(s1)] = Quote[1]
        THEN Sub(s1, 1, Len(s1) - 1) ELSE s1)

\* a variant that keeps every TXT answer, SPF or not
fetchSPFRecordsNoSpfFilter(resp) ==
    IF resp.rejected THEN [failed |-> TRUE, message |-> resp.message, records |-> <<>>]
    ELSE IF ~resp.ok
    THEN [failed |-> TRUE, message |-> msgLookupFailed \o resp.statusText, records |-> <<>>]
    ELSE IF resp.Status # 0
    THEN [failed |-> TRUE, message |-> msgQueryFailed, records |-> <<>>]
    ELSE IF ~resp.hasAnswer
    THEN [failed |-> FALSE, message |-> <<>>, records |-> <<>>]
    ELSE LET IsTxt(r) == r.type = TypeTXT
             txt == SelectSeq(resp.Answer, IsTxt)
         IN  [failed |-> FALSE, message |-> <<>>,
              records |-> [k \in 1..Len(txt) |-> StripQuotes(txt[k].data)]]

\* fetchSPFRecords, from the response of its request: throws (failed) on a
\* rejected fetch, a non-ok response or Status # 0; otherwise the
\* quote-stripped data of the type-16 answers that start with v=spf1
fetchSPFRecords(resp) ==
    IF resp.rejected THEN [failed |-> TRUE, message |-> resp.message, records |-> <<>>]
    ELSE IF ~resp.ok
    THEN [failed |-> TRUE, message |-> msgLookupFailed \o resp.statusText, records |-> <<>>]
    ELSE IF resp.Status # 0
    THEN [failed |-> TRUE, message |-> msgQueryFailed, records |-> <<>>]
    ELSE IF ~resp.hasAnswer
    THEN [failed |-> FALSE, message |-> <<>>, records |-> <<>>]
    ELSE LET IsTxt(r) == r.type = TypeTXT
             IsSpf(t) == StartsWith(t, vSpf1)
             txt == SelectSeq(resp.Answer, IsTxt)
             stripped == [k \in 1..Len(txt) |-> StripQuotes(txt[k].data)]
         IN  [failed |-> FALSE, message |-> <<>>,
              records |-> SelectSeq(stripped, IsSpf)]

\* a variant that lets the failure escape
fetchIncludedDomainRaises(resp) ==
    Eager(fetchSPFRecords(resp), LAMBDA r :
        IF r.failed THEN [raised |-> TRUE, value |-> r.message]
        ELSE [raised |-> FALSE,
              value |-> IF Len(r.records) > 0 THEN r.records[1] ELSE msgNoRecord])

\* fetchIncludedDomain, from the response of its request: the first record,
\* or a placeholder; a failure is caught and turned into a message
fetchIncludedDomain(resp) ==
    Eager(fetchSPFRecords(resp), LAMBDA r :
        IF r.failed THEN [raised |-> FALSE, value |-> msgErrorPrefix \o r.message]
        ELSE [raised |-> FALSE,
              value |-> IF Len(r.records) > 0 THEN r.records[1] ELSE msgNoRecord])

(***************************************************************************)
(* countDNSLookups.                                                        *)
(*                                                                         *)
(* The recursion is an explicit stack of frames, one per call that passed  *)
(* the depth test: the include domains of its record, the position of its  *)
(* for loop, its local count and its depth.  It runs until it awaits the   *)
(* resolver (waiting) or the outermost call returns (result >= 0).         *)
(* resolved, counted and cut record what the traversal did: the domains it *)
(* asked the resolver for, the records whose direct cost it added (with    *)
(* the domain they belong to and the depth), and the calls that the depth  *)
(* test returned from.                                                     *)
(***************************************************************************)
MaxDepth == 10

NoResult == -1

\* if (depth > 10) return 0;
DepthExceededOff(depth) == FALSE

DepthExceeded(depth) == depth > MaxDepth

\* spfRecord.match(/include:([^\s]+)/g).map(m => m.replace('include:', ''))
includeDomains(spfRecord) == Captures(spfRecord, kwInclude)

\* the count of one record before the loop over its include domains
DirectCost(spfRecord) ==
    Len(includeDomains(spfRecord))
    + CountLit(spfRecord, kwRedirect)
    + CountWord(spfRecord, wordA)
    + CountWord(spfRecord, wordMx)
    + CountWord(spfRecord, wordPtr)
    + CountLit(spfRecord, kwExists)

\* visited.has(domain)
HasVisitedNever(visited, domain) == FALSE

HasVisited(visited, domain) == domain \in visited

\* the state of a traversal before its first call: visited = new Set()
NewTraversal ==
    [stack |-> <<>>, visited |-> {}, waiting |-> FALSE, pending |-> <<>>,
     result |-> NoResult, resolved |-> <<>>, counted |-> <<>>, cut |-> <<>>]

\* a call returns n to its caller: the outermost call's value is the result;
\* otherwise the caller adds it (count += nestedCount) and its loop moves on
Return(tr0, n) ==
    Eager(tr0, LAMBDA tr :
        IF tr.stack = <<>> THEN [tr EXCEPT !.result = n]
        ELSE LET top == Len(tr.stack)
             IN  [tr EXCEPT !.stack[top].count = @ + n, !.stack[top].idx = @ + 1])

\* a call countDNSLookups(spfRecord, visited, depth) for the record of domain of
Call(tr, spfRecord0, depth, of) ==
    Eager(spfRecord0, LAMBDA spfRecord :
        IF DepthExceeded(depth)
        THEN Return([tr EXCEPT !.cut = Append(@, of)], 0)
        ELSE [tr EXCEPT
                !.stack = Append(@, [domains |-> includeDomains(spfRecord), idx |-> 1,
                                     count |-> DirectCost(spfRecord), depth |-> depth]),
                !.counted = Append(@, [domain |-> of, depth |-> depth])])

\* the loop of the running call, up to its next await of the resolver or to
\* the return of the outermost call
RECURSIVE Run(_)
Run(tr0) ==
    Eager(tr0, LAMBDA tr :
        IF tr.waiting \/ tr.result # NoResult \/ tr.stack = <<>> THEN tr
        ELSE LET top == Len(tr.stack)
                 f   == tr.stack[top]
             IN  IF f.idx > Len(f.domains)
                 THEN Run(Return([tr EXCEPT !.stack = Sub(@, 1, top - 1)], f.count))
                 ELSE LET d == f.domains[f.idx]
                      IN  IF HasVisited(tr.visited, d)
                          THEN Run([tr EXCEPT !.stack[top].idx = @ + 1])
                          ELSE [tr EXCEPT !.visited = @ \cup {d},
                                          !.waiting = TRUE,
                                          !.pending = d,
                                          !.resolved = Append(@, d)])

\* a failed resolution aborts the whole traversal
ResumeRethrow(tr, resp) ==
    Eager(fetchSPFRecords(resp), LAMBDA r :
    LET top == Len(tr.stack)
        go  == [tr EXCEPT !.waiting = FALSE, !.pending = <<>>]
    IN  IF r.failed THEN [go EXCEPT !.stack = <<>>, !.result = 0]
        ELSE IF Len(r.records) = 0
        THEN Run([go EXCEPT !.stack[top].idx = @ + 1])
        ELSE Run(Call(go, r.records[1], tr.stack[top].depth + 1, tr.pending)))

\* the awaited fetchSPFRecords(domain) settles with resp: a failure is
\* caught and ignored, no record adds nothing, and the first record is
\* counted by a nested call
Resume(tr, resp) ==
    Eager(fetchSPFRecords(resp), LAMBDA r :
    LET top == Len(tr.stack)
        go  == [tr EXCEPT !.waiting = FALSE, !.pending = <<>>]
    IN  IF r.failed \/ Len(r.records) = 0
        THEN Run([go EXCEPT !.stack[top].idx = @ + 1])
        ELSE Run(Call(go, r.records[1], tr.stack[top].depth + 1, tr.pending)))

\* countDNSLookups(spfRecords[0]) as displayResults calls it for domain
countDNSLookups(spfRecord, domain) == Run(Call(NewTraversal, spfRecord, 0, domain))

\* extractIncludes with a single left-to-right scan
RECURSIVE extractInOrderFrom(_, _)
extractInOrderFrom(s, i) ==
    LET Lit(j) == IF LitAt(s, j, kwInclude) THEN kwInclude
                  ELSE IF LitAt(s, j, kwRedirect) THEN kwRedirect ELSE <<>>
    IN  Eager(NextAt(s, i, LAMBDA j : /\ Lit(j) # <<>>
                                      /\ j + Len(Lit(j)) <= Len(s)
                                      /\ s[j + Len(Lit(j))] \notin SpaceChar),
              LAMBDA m :
            IF m > Len(s) THEN <<>>
            ELSE Eager(RunEnd(s, m + Len(Lit(m))), LAMBDA e :
                     <<[type |-> IF Lit(m) = kwInclude THEN "include" ELSE "redirect",
                        domain |-> Sub(s, m + Len(Lit(m)), e)]>>
                     \o extractInOrderFrom(s, e + 1)))

extractIncludesInOrder(spfRecord) ==
    Eager(spfRecord, LAMBDA s : extractInOrderFrom(s, 1))

\* extractIncludes: the include: captures, then the redirect= captures
extractIncludes(spfRecord) ==
    LET inc == Captures(spfRecord, kwInclude)
        red == Captures(spfRecord, kwRedirect)
    IN  [k \in 1..Len(inc) |-> [type |-> "include", domain |-> inc[k]]]
        \o [k \in 1..Len(red) |-> [type |-> "redirect", domain |-> red[k]]]

(***************************************************************************)
(* getMechanismExplanation and highlightMechanisms.                        *)
(*                                                                         *)
(* highlightMechanisms runs five String.prototype.replace passes with      *)
(* global patterns, each over the text the pass before it produced, the    *)
(* markup that pass inserted included.                                     *)
(***************************************************************************)
kwIp4 == <<"i","p","4",":">>
kwIp6 == <<"i","p","6",":">>
wordExists == <<"e","x","i","s","t","s">>
wordAll == <<"a","l","l">>
explFallback == <<"S","P","F"," ","m","e","c","h","a","n","i","s","m">>

\* explanations[mechanism] || 'SPF mechanism'
getMechanismExplanation(mechanism) ==
    CASE mechanism = kwInclude -> <<"A","u","t","h","o","r","i","z","e","s"," ","a","n","o","t","h","e","r"," ","d","o","m","a","i","n","'","s"," ","S","P","F"," ","r","e","c","o","r","d">>
      [] mechanism = kwRedirect -> <<"R","e","p","l","a","c","e","s"," ","t","h","i","s"," ","S","P","F"," ","r","e","c","o","r","d"," ","w","i","t","h"," ","a","n","o","t","h","e","r"," ","d","o","m","a","i","n","'","s">>
      [] mechanism = kwIp4 -> <<"A","u","t","h","o","r","i","z","e","s"," ","a","n"," ","I","P","v","4"," ","a","d","d","r","e","s","s"," ","o","r"," ","r","a","n","g","e">>
      [] mechanism = kwIp6 -> <<"A","u","t","h","o","r","i","z","e","s"," ","a","n"," ","I","P","v","6"," ","a","d","d","r","e","s","s"," ","o","r"," ","r","a","n","g","e">>
      [] mechanism = wordA -> <<"A","u","t","h","o","r","i","z","e","s"," ","I","P"," ","a","d","d","r","e","s","s","e","s"," ","f","r","o","m"," ","d","o","m","a","i","n","'","s"," ","A","/","A","A","A","A"," ","r","e","c","o","r","d","s">>
      [] mechanism = wordMx -> <<"A","u","t","h","o","r","i","z","e","s"," ","I","P"," ","a","d","d","r","e","s","s","e","s"," ","f","r","o","m"," ","d","o","m","a","i","n","'","s"," ","M","X"," ","r","e","c","o","r","d","s">>
      [] mechanism = wordPtr -> <<"A","u","t","h","o","r","i","z","e","s"," ","i","f"," ","r","e","v","e","r","s","e"," ","D","N","S"," ","l","o","o","k","u","p"," ","m","a","t","c","h","e","s"," ","(","d","e","p","r","e","c","a","t","e","d",")">>
      [] mechanism = wordExists -> <<"P","e","r","f","o","r","m","s"," ","a"," ","D","N","S"," ","A"," ","r","e","c","o","r","d"," ","l","o","o","k","u","p">>
      [] mechanism = <<"-","a","l","l">> -> <<"H","a","r","d"," ","f","a","i","l"," ","-"," ","r","e","j","e","c","t","s"," ","a","l","l"," ","o","t","h","e","r"," ","s","o","u","r","c","e","s">>
      [] mechanism = <<"~","a","l","l">> -> <<"S","o","f","t"," ","f","a","i","l"," ","-"," ","m","a","r","k","s"," ","a","s"," ","s","u","s","p","i","c","i","o","u","s"," ","b","u","t"," ","a","c","c","e","p","t","s">>
      [] mechanism = <<"?","a","l","l">> -> <<"N","e","u","t","r","a","l"," ","-"," ","n","o"," ","p","o","l","i","c","y"," ","s","t","a","t","e","m","e","n","t">>
      [] mechanism = <<"+","a","l","l">> -> <<"P","a","s","s"," ","-"," ","a","l","l","o","w","s"," ","a","l","l"," ","(","s","t","r","o","n","g","l","y"," ","d","i","s","c","o","u","r","a","g","e","d","!",")">>
      [] OTHER -> explFallback

\* the markup of one span: class cls, the attributes attrs, the
\* explanation as title and as tooltip, and the text inner
SpanHtml(cls, attrs, title, inner) ==
    <<"<","s","p","a","n"," ","c","l","a","s","s","=","\"","m","e","c","h","a","n","i","s","m"," ">> \o cls \o <<"\"">> \o attrs \o <<" ","t","i","t","l","e","=","\"">> \o title
    \o <<"\"",">">> \o inner \o <<"<","s","p","a","n"," ","c","l","a","s","s","=","\"","m","e","c","h","a","n","i","s","m","-","t","o","o","l","t","i","p","\"",">">> \o title
    \o <<"<","/","s","p","a","n",">","<","/","s","p","a","n",">">>

\* the starts of the matches of a global pattern, left to right and not
\* overlapping, from lens[j], the length of the match at j (0: no match)
RECURSIVE MatchStarts(_, _)
MatchStarts(lens, i) ==
    Eager(NextAt(lens, i, LAMBDA j : lens[j] > 0), LAMBDA m :
        IF m > Len(lens) THEN <<>>
        ELSE <<m>> \o MatchStarts(lens, m + lens[m]))

RECURSIVE Flatten(_)
Flatten(pieces0) ==
    Eager(pieces0, LAMBDA pieces :
        IF Len(pieces) = 0 THEN <<>> ELSE pieces[1] \o Flatten(Tail(pieces)))

\* s.replace(pattern, replacer) for a global pattern: MatchLen(j) is the
\* length of the pattern's match at position j, Repl(j, n) what replaces it
ReplaceAll(s0, MatchLen(_), Repl(_, _)) ==
    Eager(s0, LAMBDA s :
    Eager([j \in 1..Len(s) |-> MatchLen(j)], LAMBDA lens :
    Eager(MatchStarts(lens, 1), LAMBDA starts :
        LET After(k) == IF k = 0 THEN 1 ELSE starts[k] + lens[starts[k]]
        IN  Flatten([k \in 1..Len(starts) |->
                        Sub(s, After(k - 1), starts[k] - 1)
                        \o Repl(starts[k], lens[starts[k]])])
            \o Sub(s, After(Len(starts)), Len(s)))))

\* the length of the match of lit([\S]+) at position j of s
CaptureLen(s, j, lit) ==
    IF LitAt(s, j, lit) /\ j + Len(lit) <= Len(s) /\ s[j + Len(lit)] \notin SpaceChar
    THEN RunEnd(s, j + Len(lit)) - j + 1
    ELSE 0

\* the passes for /include:([\S]+)/g and /redirect=([\S]+)/g
HighlightEdges(s0, lit, cls) ==
    Eager(s0, LAMBDA s :
        ReplaceAll(s, LAMBDA j : CaptureLen(s, j, lit),
                   LAMBDA j, n :
                       SpanHtml(cls,
                                <<" ","d","a","t","a","-","d","o","m","a","i","n","=","\"">> \o Sub(s, j + Len(lit), j + n - 1) \o <<"\"">>,
                                getMechanismExplanation(lit),
                                Sub(s, j, j + n - 1))))

\* the pass for /ip([46]):([\S]+)/g
HighlightIp(s0) ==
    Eager(s0, LAMBDA s :
        ReplaceAll(s, LAMBDA j : Eager(CaptureLen(s, j, kwIp4), LAMBDA n :
                                     IF n > 0 THEN n ELSE CaptureLen(s, j, kwIp6)),
                   LAMBDA j, n :
                       SpanHtml(<<"i","p">>, <<>>, getMechanismExplanation(Sub(s, j, j + 3)),
                                Sub(s, j, j + n - 1))))

\* the pass for /([~\-?+]?all)/g
HighlightAll(s0) ==
    Eager(s0, LAMBDA s :
        ReplaceAll(s, LAMBDA j : IF s[j] \in {"~", "-", "?", "+"} /\ LitAt(s, j + 1, wordAll)
                                 THEN Len(wordAll) + 1
                                 ELSE IF LitAt(s, j, wordAll) THEN Len(wordAll) ELSE 0,
                   LAMBDA j, n :
                       SpanHtml(wordAll, <<>>, getMechanismExplanation(Sub(s, j, j + n - 1)),
                                Sub(s, j, j + n - 1))))

\* the mechanism /\b(a|mx|ptr|exists)(:|\s|$)/ matches at position j of s,
\* or <<>>: the alternatives are tried in this order
WordMechanismAt(s, j) ==
    LET Fits(w) ==
            /\ LitAt(s, j, w)
            /\ \/ j + Len(w) > Len(s)
               \/ s[j + Len(w)] = ":"
               \/ s[j + Len(w)] \in SpaceChar
    IN  IF ~WordBoundary(s, j) THEN <<>>
        ELSE IF Fits(wordA) THEN wordA
        ELSE IF Fits(wordMx) THEN wordMx
        ELSE IF Fits(wordPtr) THEN wordPtr
        ELSE IF Fits(wordExists) THEN wordExists
        ELSE <<>>

\* the pass for /\b(a|mx|ptr|exists)(:|\s|$)/g
HighlightWords(s0) ==
    Eager(s0, LAMBDA s :
        ReplaceAll(s, LAMBDA j : Eager(WordMechanismAt(s, j), LAMBDA w :
                                     IF w = <<>> THEN 0
                                     ELSE IF j + Len(w) > Len(s) THEN Len(w)
                                     ELSE Len(w) + 1),
                   LAMBDA j, n :
                       SpanHtml(<<"i","p">>, <<>>, getMechanismExplanation(WordMechanismAt(s, j)),
                                Sub(s, j, j + n - 1))))

\* highlightMechanisms: the record with its mechanisms wrapped in spans
highlightMechanisms(spfRecord) ==
    HighlightWords(HighlightAll(HighlightIp(
        HighlightEdges(HighlightEdges(spfRecord, kwInclude, <<"i","n","c","l","u","d","e">>),
                       kwRedirect, <<"r","e","d","i","r","e","c","t">>))))

(***************************************************************************)
(* The resolver's side: responses, records and zones.                      *)
(***************************************************************************)
RECURSIVE Join(_)
\* tokens joined by single spaces
Join(toks) ==
    IF Len(toks) = 0 THEN <<>>
    ELSE IF Len(toks) = 1 THEN toks[1]
    ELSE toks[1] \o <<" ">> \o Join(Tail(toks))

Inc(d) == kwInclude \o d
Red(d) == kwRedirect \o d
allFail == <<"-","a","l","l">>
allSoft == <<"~","a","l","l">>

\* a TXT answer as the endpoint sends it: the text wrapped in double quotes
Txt(text) == [type |-> TypeTXT, data |-> Quote \o text \o Quote]
\* a CNAME answer (type 5)
Cname(target) == [type |-> 5, data |-> target]

Answered(answers) ==
    [rejected |-> FALSE, message |-> <<>>, ok |-> TRUE, statusText |-> <<>>,
     Status |-> 0, hasAnswer |-> TRUE, Answer |-> answers]
NoAnswer ==
    [rejected |-> FALSE, message |-> <<>>, ok |-> TRUE, statusText |-> <<>>,
     Status |-> 0, hasAnswer |-> FALSE, Answer |-> <<>>]
\* the resolver reports SERVFAIL (2) or NXDOMAIN (3)
ServFail == [NoAnswer EXCEPT !.Status = 2]
NxDomain == [NoAnswer EXCEPT !.Status = 3]
HttpError == [NoAnswer EXCEPT !.ok = FALSE, !.statusText = <<"B","a","d"," ","G","a","t","e","w","a","y">>]
Rejected == [NoAnswer EXCEPT !.rejected = TRUE, !.message = <<"F","a","i","l","e","d"," ","t","o"," ","f","e","t","c","h">>]

\* the response for a name: names outside the zone do not exist
Lookup(zone, domain) ==
    IF domain \in DOMAIN zone THEN zone[domain] ELSE NxDomain

\* one SPF record as the only TXT answer
Spf(toks) == Answered(<<Txt(Join(<<vSpf1>> \o toks))>>)

dX == <<"x",".","i","o">>
dY == <<"y",".","i","o">>
dP == <<"p",".","i","o">>
dQ == <<"q",".","i","o">>
dR == <<"r",".","i","o">>
dE == <<"e",".","i","o">>
dF == <<"f",".","i","o">>
dG == <<"g",".","i","o">>
dH == <<"h",".","i","o">>
dACom == <<"a",".","c","o","m">>
dBCom == <<"b",".","c","o","m">>
dSpfA == <<"s","p","f","-","a",".","z",".","i","o">>
dMxHost == <<"m","x",".","z",".","i","o">>
dGoogle == <<"_","s","p","f",".","g","o","o","g","l","e",".","c","o","m">>

\* --- A includes B, B includes A
CycleZone == (dX :> Spf(<<Inc(dY), allFail>>)) @@ (dY :> Spf(<<Inc(dX), allFail>>))

\* --- the same include twice in one record, and a diamond below it
DupZone ==
    (dX :> Spf(<<Inc(dY), Inc(dY), Inc(dP), allFail>>))
    @@ (dY :> Spf(<<<<"m","x">>, Inc(dQ), allFail>>))
    @@ (dP :> Spf(<<Inc(dQ), Inc(dY), allFail>>))
    @@ (dQ :> Spf(<<<<"p","t","r">>, allFail>>))

\* --- a chain n1 -> n2 -> ... -> nChainLen of single-include records
ChainLen == 15
DigitSeq == <<"0","1","2","3","4","5","6","7","8","9">>
RECURSIVE Decimal(_)
Decimal(n) ==
    IF n < 10 THEN <<DigitSeq[n + 1]>>
    ELSE Decimal(n \div 10) \o <<DigitSeq[(n % 10) + 1]>>
ChainDomain(k) == <<"n">> \o Decimal(k) \o <<".","i","o">>
ChainDomains == {ChainDomain(k) : k \in 1..ChainLen}
ChainIndex(d) == CHOOSE k \in 1..ChainLen : ChainDomain(k) = d
ChainZone ==
    [d \in ChainDomains |->
        IF ChainIndex(d) < ChainLen
        THEN Spf(<<Inc(ChainDomain(ChainIndex(d) + 1))>>)
        ELSE Spf(<<allFail>>)]

\* --- a name at the end of a chain of MaxDepth includes that the first
\* --- record also includes directly
ShortcutZone ==
    (dX :> Spf(<<Inc(ChainDomain(1)), Inc(dY), allFail>>))
    @@ [d \in {ChainDomain(k) : k \in 1..MaxDepth} |->
           IF ChainIndex(d) < MaxDepth
           THEN Spf(<<Inc(ChainDomain(ChainIndex(d) + 1))>>)
           ELSE Spf(<<Inc(dY), allFail>>)]
    @@ (dY :> Spf(<<<<"m","x">>, allFail>>))

\* --- every include graph over three names: each name answers with one of
\* --- a few include lists, or does not exist, or has no TXT answer
Nodes == {dP, dQ, dR}
IncLists == {<<>>, <<dP>>, <<dQ>>, <<dR>>, <<dQ, dR>>, <<dR, dQ>>, <<dQ, dQ>>, <<dP, dQ>>}
IncRecord(l) == Spf([k \in 1..Len(l) |-> Inc(l[k])] \o <<allFail>>)
NodeAnswers == {IncRecord(l) : l \in IncLists} \cup {NxDomain, NoAnswer}
GraphZones == [Nodes -> NodeAnswers]

\* --- includes of leaf records, next to a, mx, ptr, exists and redirect
LeafZone ==
    (dX :> Spf(<<<<"a">>, <<"m","x">>, Inc(dP), Inc(dQ), <<"p","t","r">>, <<"e","x","i","s","t","s",":","%","{","i","}",".","b","l",".","i","o">>,
                 <<"m","x",":","h",".","i","o","/","2","4">>, Red(dR)>>))
    @@ (dP :> Spf(<<<<"i","p","4",":","1","9","2",".","0",".","2",".","0","/","2","4">>, allFail>>))
    @@ (dQ :> Spf(<<<<"i","p","6",":","2","0","0","1",":","d","b","8",":",":","1">>, allSoft>>))
    @@ (dR :> Spf(<<<<"m","x">>, Inc(dG), allFail>>))
    @@ (dG :> Spf(<<<<"a">>, allFail>>))

\* --- include targets whose names contain a, mx or ptr as a word
WordZone ==
    (dX :> Spf(<<Inc(dACom), allFail>>))
    @@ (dACom :> Spf(<<<<"i","p","4",":","1","9","2",".","0",".","2",".","1">>, allFail>>))
    @@ (dY :> Spf(<<Inc(dSpfA), Inc(dMxHost), allFail>>))
    @@ (dSpfA :> Spf(<<<<"i","p","4",":","1","9","2",".","0",".","2",".","2">>, allFail>>))
    @@ (dMxHost :> Spf(<<<<"i","p","4",":","1","9","2",".","0",".","2",".","3">>, allFail>>))

\* --- ip4: and ip6: tokens
IpZone ==
    (dX :> Spf(<<<<"i","p","4",":","1","9","2",".","0",".","2",".","0","/","2","4">>, <<"i","p","4",":","1","9","8",".","5","1",".","1","0","0",".","7">>, <<"i","p","6",":","2","0","0","1",":","d","b","8",":",":","1">>, allSoft>>))
    @@ (dY :> Spf(<<<<"i","p","6",":","2","0","0","1",":","d","b","8",":",":","a">>, allFail>>))
    @@ (dP :> Spf(<<<<"m","x">>, <<"i","p","6",":","2","0","0","1",":","d","b","8",":","a",":",":","1","/","6","4">>, allFail>>))
    @@ (dGoogle :> Spf(<<<<"i","p","4",":","2",".","2",".","2",".","2">>, allFail>>))
    @@ (dQ :> Spf(<<Inc(dGoogle), <<"i","p","4",":","1",".","2",".","3",".","0","/","2","4">>, allSoft>>))

\* --- include targets that cannot be resolved
FailZone ==
    (dX :> Spf(<<Inc(dE), Inc(dF), Inc(dG), Inc(dH), Inc(dY), <<"m","x">>, allFail>>))
    @@ (dE :> Rejected)
    @@ (dF :> HttpError)
    @@ (dG :> ServFail)
    @@ (dH :> NoAnswer)
    @@ (dY :> Spf(<<<<"m","x">>, Inc(dR), allFail>>))
    @@ (dR :> NxDomain)

\* --- include: and redirect= tokens interleaved
EdgeZone ==
    (dX :> Spf(<<Inc(dACom), Red(dBCom), allFail>>))
    @@ (dY :> Spf(<<Red(dBCom), Inc(dACom), allFail>>))
    @@ (dP :> Spf(<<Red(dR), Inc(dQ), Red(dBCom), Inc(dACom)>>))
    @@ (dACom :> Spf(<<allFail>>))
    @@ (dBCom :> Spf(<<<<"m","x">>, Inc(dG), allFail>>))
    @@ (dE :> Spf(<<Red(dACom), allFail>>))

\* --- the answers fetchSPFRecords has to sort out
AnswerZone ==
    (dX :> Answered(<<Cname(dY), Txt(<<"g","o","o","g","l","e","-","s","i","t","e","-","v","e","r","i","f","i","c","a","t","i","o","n","=","a","b","c">>),
                      Txt(Join(<<vSpf1, <<"m","x">>, allFail>>)),
                      [type |-> TypeTXT, data |-> Join(<<vSpf1, allSoft>>)],
                      [type |-> 5, data |-> Join(<<vSpf1, allFail>>)],
                      Txt(<<" ","v","=","s","p","f","1"," ","-","a","l","l">>),
                      Txt(Join(<<vSpf1, Inc(dY), allFail>>))>>))
    @@ (dY :> Answered(<<Txt(<<"s","o","m","e"," ","t","e","x","t">>), Cname(dX)>>))
    @@ (dP :> Answered(<<>>))
    @@ (dQ :> NoAnswer)
    @@ (dR :> NxDomain)
    @@ (dE :> Rejected)
    @@ (dF :> HttpError)
    @@ (dG :> ServFail)
    @@ (dH :> Answered(<<Txt(<<"V","=","S","P","F","1"," ","m","x">>), Txt(<<"v","=","s","p","f","1","0"," ","m","x">>)>>))

\* --- records that end in all, with each qualifier and with none
AllZone ==
    (dX :> Spf(<<<<"m","x">>, wordAll>>))
    @@ (dY :> Spf(<<<<"m","x">>, <<"+","a","l","l">>>>))
    @@ (dP :> Spf(<<<<"a",":","h",".","i","o">>, <<"e","x","i","s","t","s",":","%","{","i","}",".","b","l",".","i","o">>, <<"?","a","l","l">>>>))
    @@ (dQ :> Spf(<<<<"i","p","4",":","1","9","2",".","0",".","2",".","0","/","2","4">>, Inc(dY), <<"p","t","r">>>>))

\* what the user may type, or an example button may hold, in each scenario
RawInputs ==
    {<<>>, <<" "," ">>, <<" ","X",".","I","O"," ">>, <<"x","_","y",".","i","o">>, <<"-","x",".","i","o">>, <<"x",".","i">>, <<"x","i","o">>, <<"x",".",".","i","o">>,
     <<"x",".","i","o","1">>, <<"y",".","i","o">>, <<"s","u","b",".","x","-","y",".","i","o">>, <<"x","-",".","i","o">>}

\* a scenario: the zone the resolver serves, the inputs on offer, and how
\* many checks and clicks on a mechanism the user makes
Scenario(zone, inputs, checks, clicks) ==
    [zone |-> zone, inputs |-> inputs, checks |-> checks, clicks |-> clicks]

MaxChecks == 2
MaxClicks == 1

NamedScenarios ==
    { Scenario(CycleZone, {dX, <<"x","_","y",".","i","o">>}, MaxChecks, MaxClicks),
      Scenario(EdgeZone, {dX, dY, dP, dE}, 1, MaxClicks),
      Scenario(FailZone, {dX}, 1, MaxClicks),
      Scenario(DupZone, {dX}, 1, 0),
      Scenario(ChainZone, {ChainDomain(1)}, 1, 0),
      Scenario(LeafZone, {dX}, 1, 0),
      Scenario(WordZone, {dX, dY}, 1, 0),
      Scenario(IpZone, {dX, dY, dP, dQ}, 1, 0),
      Scenario(AnswerZone, {dX, dY, dP, dQ, dR, dE, dF, dG, dH}, 1, 0),
      Scenario(AllZone, {dX, dY, dP, dQ}, 1, 0),
      Scenario(ShortcutZone, {dX}, 1, 0),
      Scenario(CycleZone, RawInputs, 1, 0) }

Scenarios == NamedScenarios \cup {Scenario(z, {dP}, 1, 0) : z \in GraphZones}

(***************************************************************************)
(* The page: one SPFChecker, the checks started on it and the panel they   *)
(* write.                                                                  *)
(*                                                                         *)
(* JavaScript runs one task at a time: an action is one task, from the     *)
(* event or the settled request that starts it to the next await of the    *)
(* resolver.  The continuation that follows the return of countDNSLookups  *)
(* is a microtask: it runs before any other task (RenderPending).          *)
(***************************************************************************)
Checks == 1..MaxChecks

VARIABLES
    scenario,        \* the zone the resolver serves and what the user does
    domainInput,     \* this.domainInput.value
    checkDisabled,   \* this.checkButton.disabled
    resultsDiv,      \* this.resultsDiv.innerHTML, by what it shows
    nChecks,         \* the checkSPF calls made so far
    phase,           \* where each checkSPF call is
    path,            \* the phases each call went through, in order
    domain,          \* the local domain of each call
    spfRecords,      \* the local spfRecords of each call
    trav,            \* the countDNSLookups traversal of each call
    drills           \* the include items opened by clicks on a mechanism

vars == <<scenario, domainInput, checkDisabled, resultsDiv, nChecks, phase, path,
          domain, spfRecords, trav, drills>>

Terminal == {"NotFound", "Ready", "Failed"}

\* what the panel shows: kind is empty, loading, calculating, error or
\* results; by is the check that wrote it; markup is the highlighted text
\* of each record
Panel(kind, by, message, dom, records, total, edges) ==
    [kind |-> kind, by |-> by, message |-> message, domain |-> dom,
     records |-> records, total |-> total, edges |-> edges,
     markup |-> [j \in 1..Len(records) |-> highlightMechanisms(records[j])]]

EmptyPanel == Panel("empty", 0, <<>>, <<>>, <<>>, 0, <<>>)

\* showLoading()
showLoading(i) == Panel("loading", i, <<>>, <<>>, <<>>, 0, <<>>)

\* showError(message, details)
showError(i, message) == Panel("error", i, message, <<>>, <<>>, 0, <<>>)

Init ==
    /\ scenario \in Scenarios
    /\ domainInput = <<>>
    /\ checkDisabled = FALSE
    /\ resultsDiv = EmptyPanel
    /\ nChecks = 0
    /\ phase = [i \in Checks |-> "Idle"]
    /\ path = [i \in Checks |-> <<"Idle">>]
    /\ domain = [i \in Checks |-> <<>>]
    /\ spfRecords = [i \in Checks |-> <<>>]
    /\ trav = [i \in Checks |-> NewTraversal]
    /\ drills = <<>>

\* the continuation of displayResults after countDNSLookups returned is due
RenderPending ==
    \E i \in Checks : phase[i] = "CountingLookups" /\ trav[i].result # NoResult

\* checkSPF with showLoading() and the disabling of the button moved in
\* front of the two tests of the domain
checkSPFLoadsFirst(i, value) ==
    \E d \in {ToLowerCase(Trim(value))} :
        /\ domainInput' = d
        /\ domain' = [domain EXCEPT ![i] = d]
        /\ nChecks' = i
        /\ IF d = <<>>
           THEN /\ resultsDiv' = showError(i, msgEnterDomain)
                /\ phase' = [phase EXCEPT ![i] = "Failed"]
                /\ path' = [path EXCEPT ![i] = @ \o <<"Validating", "Failed">>]
                /\ checkDisabled' = TRUE
           ELSE IF ~validateDomain(d)
           THEN /\ resultsDiv' = showError(i, msgInvalid)
                /\ phase' = [phase EXCEPT ![i] = "Failed"]
                /\ path' = [path EXCEPT ![i] = @ \o <<"Validating", "Failed">>]
                /\ checkDisabled' = TRUE
           ELSE /\ resultsDiv' = showLoading(i)
                /\ checkDisabled' = TRUE
                /\ phase' = [phase EXCEPT ![i] = "Resolving"]
                /\ path' = [path EXCEPT ![i] = @ \o <<"Validating", "Resolving">>]
        /\ UNCHANGED <<scenario, spfRecords, trav, drills>>

\* checkSPF() up to its first await, with value in the input field
checkSPF(i, value) ==
    \E d \in {ToLowerCase(Trim(value))} :
        /\ domainInput' = d
        /\ domain' = [domain EXCEPT ![i] = d]
        /\ nChecks' = i
        /\ IF d = <<>>
           THEN /\ resultsDiv' = showError(i, msgEnterDomain)
                /\ phase' = [phase EXCEPT ![i] = "Failed"]
                /\ path' = [path EXCEPT ![i] = @ \o <<"Validating", "Failed">>]
                /\ UNCHANGED checkDisabled
           ELSE IF ~validateDomain(d)
           THEN /\ resultsDiv' = showError(i, msgInvalid)
                /\ phase' = [phase EXCEPT ![i] = "Failed"]
                /\ path' = [path EXCEPT ![i] = @ \o <<"Validating", "Failed">>]
                /\ UNCHANGED checkDisabled
           ELSE /\ resultsDiv' = showLoading(i)
                /\ checkDisabled' = TRUE
                /\ phase' = [phase EXCEPT ![i] = "Resolving"]
                /\ path' = [path EXCEPT ![i] = @ \o <<"Validating", "Resolving">>]
        /\ UNCHANGED <<scenario, spfRecords, trav, drills>>

\* the form is submitted with value typed in the input field; a disabled
\* submit button blocks the submission
SubmitForm ==
    /\ ~RenderPending
    /\ nChecks < scenario.checks
    /\ ~checkDisabled
    /\ \E value \in scenario.inputs : checkSPF(nChecks + 1, value)

\* an example button is clicked: it sets the input field and calls checkSPF
ExampleClick ==
    /\ ~RenderPending
    /\ nChecks < scenario.checks
    /\ \E value \in scenario.inputs : checkSPF(nChecks + 1, value)

\* FetchSettled with a visited set that is not created by the call: the
\* traversal starts from the names the traversals under way have marked
FetchSettledSharedVisited(i) ==
    /\ ~RenderPending
    /\ phase[i] = "Resolving"
    /\ \E r \in {fetchSPFRecords(Lookup(scenario.zone, domain[i]))} :
           IF r.failed
           THEN /\ resultsDiv' = showError(i, msgErrorCheck \o r.message)
                /\ checkDisabled' = FALSE
                /\ phase' = [phase EXCEPT ![i] = "Failed"]
                /\ path' = [path EXCEPT ![i] = Append(@, "Failed")]
                /\ UNCHANGED <<spfRecords, trav>>
           ELSE IF Len(r.records) = 0
           THEN /\ resultsDiv' = showError(i, msgNoRecordFor \o domain[i])
                /\ checkDisabled' = FALSE
                /\ phase' = [phase EXCEPT ![i] = "NotFound"]
                /\ path' = [path EXCEPT ![i] = Append(@, "NotFound")]
                /\ spfRecords' = [spfRecords EXCEPT ![i] = r.records]
                /\ UNCHANGED trav
           ELSE /\ resultsDiv' = Panel("calculating", i, <<>>, <<>>, <<>>, 0, <<>>)
                /\ spfRecords' = [spfRecords EXCEPT ![i] = r.records]
                /\ trav' = [trav EXCEPT ![i] = Run(Call([NewTraversal EXCEPT
                                 !.visited = UNION {trav[j].visited : j \in Checks}],
                             r.records[1], 0, domain[i]))]
                /\ phase' = [phase EXCEPT ![i] = "CountingLookups"]
                /\ path' = [path EXCEPT ![i] = Append(@, "CountingLookups")]
                /\ UNCHANGED checkDisabled
    /\ UNCHANGED <<scenario, domainInput, nChecks, domain, drills>>

\* FetchSettled without the test spfRecords.length === 0: displayResults is
\* entered with no record, its count and its fallback both throw, and the
\* catch block of checkSPF shows the error
FetchSettledNoEmptyTest(i) ==
    /\ ~RenderPending
    /\ phase[i] = "Resolving"
    /\ \E r \in {fetchSPFRecords(Lookup(scenario.zone, domain[i]))} :
           IF r.failed
           THEN /\ resultsDiv' = showError(i, msgErrorCheck \o r.message)
                /\ checkDisabled' = FALSE
                /\ phase' = [phase EXCEPT ![i] = "Failed"]
                /\ path' = [path EXCEPT ![i] = Append(@, "Failed")]
                /\ UNCHANGED <<spfRecords, trav>>
           ELSE IF Len(r.records) = 0
           THEN /\ resultsDiv' = showError(i, msgErrorCheck)
                /\ checkDisabled' = FALSE
                /\ phase' = [phase EXCEPT ![i] = "Failed"]
                /\ path' = [path EXCEPT ![i] = @ \o <<"CountingLookups", "Failed">>]
                /\ spfRecords' = [spfRecords EXCEPT ![i] = r.records]
                /\ UNCHANGED trav
           ELSE /\ resultsDiv' = Panel("calculating", i, <<>>, <<>>, <<>>, 0, <<>>)
                /\ spfRecords' = [spfRecords EXCEPT ![i] = r.records]
                /\ trav' = [trav EXCEPT ![i] = countDNSLookups(r.records[1], domain[i])]
                /\ phase' = [phase EXCEPT ![i] = "CountingLookups"]
                /\ path' = [path EXCEPT ![i] = Append(@, "CountingLookups")]
                /\ UNCHANGED checkDisabled
    /\ UNCHANGED <<scenario, domainInput, nChecks, domain, drills>>

\* the request of checkSPF settles: the rest of its try block, up to the
\* first await inside displayResults, and the finally block when it is done
FetchSettled(i) ==
    /\ ~RenderPending
    /\ phase[i] = "Resolving"
    /\ \E r \in {fetchSPFRecords(Lookup(scenario.zone, domain[i]))} :
           IF r.failed
           THEN /\ resultsDiv' = showError(i, msgErrorCheck \o r.message)
                /\ checkDisabled' = FALSE
                /\ phase' = [phase EXCEPT ![i] = "Failed"]
                /\ path' = [path EXCEPT ![i] = Append(@, "Failed")]
                /\ UNCHANGED <<spfRecords, trav>>
           ELSE IF Len(r.records) = 0
           THEN /\ resultsDiv' = showError(i, msgNoRecordFor \o domain[i])
                /\ checkDisabled' = FALSE
                /\ phase' = [phase EXCEPT ![i] = "NotFound"]
                /\ path' = [path EXCEPT ![i] = Append(@, "NotFound")]
                /\ spfRecords' = [spfRecords EXCEPT ![i] = r.records]
                /\ UNCHANGED trav
           ELSE /\ resultsDiv' = Panel("calculating", i, <<>>, <<>>, <<>>, 0, <<>>)
                /\ spfRecords' = [spfRecords EXCEPT ![i] = r.records]
                /\ trav' = [trav EXCEPT ![i] = countDNSLookups(r.records[1], domain[i])]
                /\ phase' = [phase EXCEPT ![i] = "CountingLookups"]
                /\ path' = [path EXCEPT ![i] = Append(@, "CountingLookups")]
                /\ UNCHANGED checkDisabled
    /\ UNCHANGED <<scenario, domainInput, nChecks, domain, drills>>

\* IncludeSettled with a traversal that takes a name out of visited again
\* when its request failed
IncludeSettledUnmarksFailure(i) ==
    /\ ~RenderPending
    /\ phase[i] = "CountingLookups"
    /\ trav[i].waiting
    /\ \E resp \in {Lookup(scenario.zone, trav[i].pending)} :
          trav' = [trav EXCEPT ![i] =
                      IF fetchSPFRecords(resp).failed
                      THEN Resume([trav[i] EXCEPT !.visited = @ \ {trav[i].pending}], resp)
                      ELSE Resume(trav[i], resp)]
    /\ UNCHANGED <<scenario, domainInput, checkDisabled, resultsDiv, nChecks, phase,
                   path, domain, spfRecords, drills>>

\* a request of countDNSLookups settles
IncludeSettled(i) ==
    /\ ~RenderPending
    /\ phase[i] = "CountingLookups"
    /\ trav[i].waiting
    /\ trav' = [trav EXCEPT ![i] = Resume(@, Lookup(scenario.zone, @.pending))]
    /\ UNCHANGED <<scenario, domainInput, checkDisabled, resultsDiv, nChecks, phase,
                   path, domain, spfRecords, drills>>

\* countDNSLookups returned: the rest of displayResults writes the results,
\* and the finally block of checkSPF enables the button
DisplayResults(i) ==
    /\ phase[i] = "CountingLookups"
    /\ trav[i].result # NoResult
    /\ resultsDiv' = Panel("results", i, <<>>, domain[i], spfRecords[i],
                           trav[i].result, extractIncludes(spfRecords[i][1]))
    /\ checkDisabled' = FALSE
    /\ phase' = [phase EXCEPT ![i] = "Ready"]
    /\ path' = [path EXCEPT ![i] = Append(@, "Ready")]
    /\ UNCHANGED <<scenario, domainInput, nChecks, domain, spfRecords, trav, drills>>

\* the domains of the include and redirect spans highlightMechanisms makes
\* for one record (their data-domain attributes)
SpanDomains(spfRecord) ==
    LET inc == Captures(spfRecord, kwInclude)
        red == Captures(spfRecord, kwRedirect)
    IN  {inc[k] : k \in 1..Len(inc)} \cup {red[k] : k \in 1..Len(red)}

\* a click on an include or redirect span of record j of the results: unless
\* the item is already there, a loading item is added and fetchIncludedDomain
\* is awaited
MechanismClick ==
    /\ ~RenderPending
    /\ Len(drills) < scenario.clicks
    /\ resultsDiv.kind = "results"
    /\ \E j \in 1..Len(resultsDiv.records) :
         \E d \in SpanDomains(resultsDiv.records[j]) :
            /\ ~\E k \in 1..Len(drills) :
                  /\ drills[k].by = resultsDiv.by
                  /\ drills[k].record = j
                  /\ drills[k].domain = d
                  /\ ~drills[k].waiting
            /\ drills' = Append(drills, [by |-> resultsDiv.by, record |-> j, domain |-> d,
                                         waiting |-> TRUE, raised |-> FALSE, value |-> <<>>])
    /\ UNCHANGED <<scenario, domainInput, checkDisabled, resultsDiv, nChecks, phase,
                   path, domain, spfRecords, trav>>

\* the request of fetchIncludedDomain settles and the item shows its value
IncludedDomainSettled(k) ==
    /\ ~RenderPending
    /\ k \in 1..Len(drills)
    /\ drills[k].waiting
    /\ \E r \in {fetchIncludedDomain(Lookup(scenario.zone, drills[k].domain))} :
           drills' = [drills EXCEPT ![k].waiting = FALSE,
                                    ![k].raised = r.raised,
                                    ![k].value = r.value]
    /\ UNCHANGED <<scenario, domainInput, checkDisabled, resultsDiv, nChecks, phase,
                   path, domain, spfRecords, trav>>

Next ==
    \/ SubmitForm
    \/ ExampleClick
    \/ \E i \in Checks : FetchSettled(i)
    \/ \E i \in Checks : IncludeSettled(i)
    \/ \E i \in Checks : DisplayResults(i)
    \/ MechanismClick
    \/ \E k \in 1..MaxClicks : IncludedDomainSettled(k)

Spec == Init /\ [][Next]_vars

\* every request of the resolver settles (with an answer or a failure), and
\* a continuation that is due runs
Fairness ==
    /\ WF_vars(\E i \in Checks : FetchSettled(i))
    /\ WF_vars(\E i \in Checks : IncludeSettled(i))
    /\ WF_vars(\E i \in Checks : DisplayResults(i))
    /\ WF_vars(\E k \in 1..MaxClicks : IncludedDomainSettled(k))

LiveSpec == Init /\ [][Next]_vars /\ Fairness

(***************************************************************************)
(* Vocabulary of the properties.                                           *)
(***************************************************************************)
Zone == scenario.zone

\* the record countDNSLookups evaluates for a domain: the first SPF record
\* of its answer, or none
HasRecord(d) ==
    LET r == fetchSPFRecords(Lookup(Zone, d))
    IN  ~r.failed /\ Len(r.records) > 0

FirstRecord(d) == fetchSPFRecords(Lookup(Zone, d)).records[1]

\* the resolution of d fails
Unresolvable(d) == fetchSPFRecords(Lookup(Zone, d)).failed

Range(seq) == {seq[k] : k \in 1..Len(seq)}

\* how often x occurs in seq
Occurrences(seq, x) == Cardinality({k \in 1..Len(seq) : seq[k] = x})

\* how often the record of domain d was counted in a traversal
TimesCounted(tr, d) == Cardinality({k \in 1..Len(tr.counted) : tr.counted[k].domain = d})

\* a includes b: the record of a has an include: token for b
IncludesDomain(a, b) == HasRecord(a) /\ b \in Range(includeDomains(FirstRecord(a)))

\* the traversal of check i has returned
Returned(i) == phase[i] \in {"CountingLookups", "Ready"} /\ trav[i].result # NoResult

\* the traversal of check i has just returned, and displayResults goes on
JustReturned(i) == phase[i] = "CountingLookups" /\ trav[i].result # NoResult

\* the direct costs of the records a traversal counted, added up
RECURSIVE SumDirect(_)
SumDirect(counted) ==
    IF counted = <<>> THEN 0
    ELSE DirectCost(FirstRecord(counted[1].domain)) + SumDirect(Tail(counted))

\* the names the zone serves
ZoneSize == Cardinality(DOMAIN Zone)

(***************************************************************************)
(* C1  Cycle safety: when the record of domain A includes B and the record *)
(* of B includes A, countDNSLookups started on A's record terminates (it   *)
(* asks the resolver at most once per name and is never left without a     *)
(* pending request or a result), and B's record is resolved and counted    *)
(* exactly once in that traversal.                                         *)
(***************************************************************************)
\* B is a name whose record includes A's name and is included by A's record
InCycleWith(a, b) == b # a /\ IncludesDomain(a, b) /\ IncludesDomain(b, a)

\* C1: with two domains that include each other, the included one is resolved and
\* counted once (the cheap disjunct comes first: the precondition is only
\* evaluated in a state that breaks the conclusion)
C1_CycleSafety ==
    \A i \in Checks :
      phase[i] \in {"CountingLookups", "Ready"} =>
        /\ trav[i].waiting \/ trav[i].result # NoResult
        /\ Len(trav[i].resolved) <= ZoneSize
        /\ \A b \in DOMAIN Zone :
              \/ /\ Occurrences(trav[i].resolved, b) <= 1
                 /\ TimesCounted(trav[i], b) <= 1
                 /\ ~Returned(i)
              \/ /\ Occurrences(trav[i].resolved, b) = 1
                 /\ TimesCounted(trav[i], b) = 1
              \/ ~InCycleWith(domain[i], b)

\* A = x.io and B = y.io include each other, and the count on A has returned
C1_Witness ==
    \E i \in Checks :
        /\ Zone = CycleZone
        /\ domain[i] = dX
        /\ phase[i] = "Ready"
        /\ trav[i].resolved = <<dY, dX>>

(***************************************************************************)
(* C2  Depth bound: on a chain of ChainLen domains in which each record    *)
(* includes exactly the next one, countDNSLookups on the first record      *)
(* terminates, and no record at a recursion depth greater than 10          *)
(* contributes to the total: a call with depth > 10 returns 0 without      *)
(* resolving anything, so the names behind it are never asked for.         *)
(***************************************************************************)
C2_DepthBound ==
    \A i \in Checks :
        /\ \A k \in 1..Len(trav[i].counted) : trav[i].counted[k].depth <= MaxDepth
        /\ \A k \in 1..Len(trav[i].stack) : trav[i].stack[k].depth <= MaxDepth
        /\ JustReturned(i) => trav[i].result = SumDirect(trav[i].counted)
        /\ (Zone = ChainZone /\ domain[i] = ChainDomain(1)
                /\ phase[i] \in {"CountingLookups", "Ready"})
           => /\ trav[i].waiting \/ trav[i].result # NoResult
              /\ Len(trav[i].resolved) <= MaxDepth + 1
              /\ \A d \in Range(trav[i].resolved) : ChainIndex(d) <= MaxDepth + 2
              /\ \A d \in Range(trav[i].cut) : ChainIndex(d) = MaxDepth + 2
              /\ Returned(i) => trav[i].result = MaxDepth + 1

\* the count on the chain has returned, and the call for the name at depth
\* 11 was cut off
C2_Witness ==
    \E i \in Checks :
        /\ Zone = ChainZone
        /\ phase[i] = "Ready"
        /\ trav[i].cut = <<ChainDomain(MaxDepth + 2)>>
        /\ Len(trav[i].counted) = MaxDepth + 1

(***************************************************************************)
(* C3  No double-counting: within one countDNSLookups traversal the record *)
(* of any domain contributes its direct cost to the total at most once,    *)
(* the domain whose record the traversal started from included.            *)
(***************************************************************************)
C3_NoDoubleCount ==
    \A i \in Checks :
      \A k1, k2 \in 1..Len(trav[i].counted) :
        trav[i].counted[k1].domain = trav[i].counted[k2].domain => k1 = k2

(***************************************************************************)
(* Tokens of a record, as the specification speaks of them: the record     *)
(* split at spaces, a token being a mechanism name with an optional        *)
(* qualifier before it and an optional argument after it.                  *)
(***************************************************************************)
Tokens(spfRecord) == Split(spfRecord, " ")

Unqualified(t) == IF Len(t) > 0 /\ t[1] \in {"+", "-", "~", "?"} THEN Tail(t) ELSE t

\* t is the mechanism name, alone or followed by : or / and an argument
IsMechanism(t, name) ==
    LET u == Unqualified(t)
    IN  \/ u = name
        \/ Len(u) > Len(name) /\ LitAt(u, 1, name) /\ u[Len(name) + 1] \in {":", "/"}

\* t starts with prefix (include:, redirect=, exists:, ip4:, ip6:)
HasPrefix(t, prefix) == LitAt(Unqualified(t), 1, prefix)

NumTokens(spfRecord, Test(_)) ==
    LET toks == Tokens(spfRecord)
    IN  Cardinality({k \in 1..Len(toks) : Test(toks[k])})

IsIncludeToken(t) == HasPrefix(t, kwInclude)
IsIpToken(t) == HasPrefix(t, <<"i","p","4",":">>) \/ HasPrefix(t, <<"i","p","6",":">>)
IsLookupToken(t) ==
    \/ IsMechanism(t, wordA) \/ IsMechanism(t, wordMx) \/ IsMechanism(t, wordPtr)
    \/ HasPrefix(t, kwExists) \/ HasPrefix(t, kwRedirect)

\* the record without its ip4: and ip6: tokens
WithoutIpTokens(spfRecord) == Join(SelectSeq(Tokens(spfRecord), LAMBDA t : ~IsIpToken(t)))

\* the value countDNSLookups returns for a traversal, every request settled
RECURSIVE Completed(_)
Completed(tr) ==
    IF tr.result # NoResult THEN tr.result
    ELSE Completed(Resume(tr, Lookup(Zone, tr.pending)))

(***************************************************************************)
(* C4  For a record with N >= 1 include: tokens whose target domains have  *)
(* records with no further includes (and, read in its favour, no           *)
(* lookup mechanism of their own), countDNSLookups returns exactly N plus  *)
(* the number of a, mx, ptr, exists and redirect= tokens of the record.    *)
(***************************************************************************)
LeafTarget(d) ==
    /\ HasRecord(d)
    /\ NumTokens(FirstRecord(d), IsIncludeToken) = 0
    /\ NumTokens(FirstRecord(d), IsLookupToken) = 0

\* C4: a record with N >= 1 include tokens, each resolving to a leaf record,
\* is counted as N plus the number of its own a, mx, ptr, exists and
\* redirect= tokens
C4_LeafIncludeCount ==
    \A i \in Checks :
        ( /\ JustReturned(i)
          /\ NumTokens(spfRecords[i][1], IsIncludeToken) >= 1
          /\ \A d \in Range(includeDomains(spfRecords[i][1])) : LeafTarget(d) )
        => trav[i].result = NumTokens(spfRecords[i][1], IsIncludeToken)
                            + NumTokens(spfRecords[i][1], IsLookupToken)

(***************************************************************************)
(* C5  ip4: and ip6: tokens never contribute to the lookup count: the      *)
(* value countDNSLookups returns for a record is the value it returns for  *)
(* the same record without its ip4: and ip6: tokens.                       *)
(***************************************************************************)
C5_IpTokensFree ==
    \A i \in Checks :
        JustReturned(i) =>
            trav[i].result =
                Completed(countDNSLookups(WithoutIpTokens(spfRecords[i][1]), domain[i]))

(***************************************************************************)
(* C6  A resolution failure for an included domain is swallowed: the       *)
(* failing branch contributes exactly 0 (the record of a domain that       *)
(* cannot be resolved is never counted, and the total is the sum of the    *)
(* direct costs of the records that were), the remaining include domains   *)
(* of the same record are still processed (every include domain of every   *)
(* counted record ends up in visited), and the top-level count returns     *)
(* normally (a check that began counting never ends in Failed).            *)
(***************************************************************************)
C6_SubFailureSwallowed ==
    \A i \in Checks :
        /\ "CountingLookups" \in Range(path[i]) => phase[i] \in {"CountingLookups", "Ready"}
        /\ phase[i] = "CountingLookups" => trav[i].waiting \/ trav[i].result # NoResult
        /\ JustReturned(i) =>
            /\ \A d \in Range(trav[i].resolved) :
                   Unresolvable(d) => TimesCounted(trav[i], d) = 0
            /\ trav[i].result = SumDirect(trav[i].counted)
            /\ \A k \in 1..Len(trav[i].counted) :
                   Range(includeDomains(FirstRecord(trav[i].counted[k].domain)))
                       \subseteq trav[i].visited

\* three includes of x.io failed (rejected, HTTP error, SERVFAIL), y.io after
\* them was still counted, and the check is Ready with the total 6 + 2
C6_Witness ==
    \E i \in Checks :
        /\ Zone = FailZone
        /\ phase[i] = "Ready"
        /\ trav[i].resolved = <<dE, dF, dG, dH, dY, dR>>
        /\ trav[i].counted = <<[domain |-> dX, depth |-> 0], [domain |-> dY, depth |-> 1]>>
        /\ resultsDiv.total = 8

(***************************************************************************)
(* C7  extractIncludes returns every include edge of the record first, in  *)
(* order of appearance, followed by every redirect edge in order of        *)
(* appearance, however the include: and redirect= tokens are interleaved;  *)
(* "v=spf1 include:a.com redirect=b.com -all" yields                       *)
(* [{include,a.com},{redirect,b.com}].                                     *)
(***************************************************************************)
\* the edges of the tokens with the given prefix, in token order
EdgesOfTokens(spfRecord, prefix, type) ==
    LET toks == SelectSeq(Tokens(spfRecord),
                          LAMBDA t : HasPrefix(t, prefix) /\ Len(Unqualified(t)) > Len(prefix))
    IN  [k \in 1..Len(toks) |->
            [type |-> type,
             domain |-> Sub(Unqualified(toks[k]), Len(prefix) + 1, Len(Unqualified(toks[k])))]]

\* C7: extractIncludes lists every include in record order, then every
\* redirect in record order
C7_IncludesBeforeRedirects ==
    resultsDiv.kind = "results" =>
        LET rec == resultsDiv.records[1]
        IN  /\ resultsDiv.edges = EdgesOfTokens(rec, kwInclude, "include")
                                  \o EdgesOfTokens(rec, kwRedirect, "redirect")
            /\ rec = <<"v","=","s","p","f","1"," ","i","n","c","l","u","d","e",":","a",".","c","o","m"," ","r","e","d","i","r","e","c","t","=","b",".","c","o","m"," ","-","a","l","l">> =>
                  resultsDiv.edges = <<[type |-> "include", domain |-> dACom],
                                       [type |-> "redirect", domain |-> dBCom]>>

\* the results of a record whose redirect= tokens come before and between
\* its include: tokens
C7_Witness ==
    /\ resultsDiv.kind = "results"
    /\ resultsDiv.records[1] = <<"v","=","s","p","f","1"," ","r","e","d","i","r","e","c","t","=","r",".","i","o"," ","i","n","c","l","u","d","e",":","q",".","i","o"," ","r","e","d","i","r","e","c","t","=","b",".","c","o","m"," ","i","n","c","l","u","d","e",":","a",".","c","o","m">>
    /\ resultsDiv.edges = <<[type |-> "include", domain |-> dQ],
                            [type |-> "include", domain |-> dACom],
                            [type |-> "redirect", domain |-> dR],
                            [type |-> "redirect", domain |-> dBCom]>>

(***************************************************************************)
(* C8  fetchSPFRecords: when the resolver answers with a success HTTP      *)
(* status and Status 0, the call returns exactly the subsequence of the    *)
(* Answer entries with type 16 whose quote-stripped data begins with       *)
(* v=spf1, in response order (their quote-stripped data), and the empty    *)
(* sequence when there is no Answer; it fails exactly on a transport       *)
(* failure, a non-success HTTP status or Status # 0.                       *)
(***************************************************************************)
\* a double quote at either end of the data removed
Unquoted(data) ==
    LET from == IF Len(data) > 0 /\ Head(data) = "\"" THEN 2 ELSE 1
        to   == IF Len(data) >= from /\ data[Len(data)] = "\"" THEN Len(data) - 1
                ELSE Len(data)
    IN  Sub(data, from, to)

\* res is the sequence of the unquoted data of the answers at the indexes
\* keep, in increasing index order
IsSelection(res, answers, keep) ==
    /\ Len(res) = Cardinality(keep)
    /\ \E f \in [1..Len(res) -> keep] :
          /\ \A j1, j2 \in 1..Len(res) : j1 < j2 => f[j1] < f[j2]
          /\ \A j \in 1..Len(res) : res[j] = Unquoted(answers[f[j]].data)

\* C8: fetchSPFRecords raises exactly on a rejected fetch, a non-ok response
\* or a non-zero Status; otherwise it returns the unquoted type-16 answers
\* that start with v=spf1, in answer order, and the empty list without Answer
C8_FetchOutcome ==
    \A i \in Checks :
        ("Resolving" \in Range(path[i]) /\ phase[i] # "Resolving") =>
            LET resp    == Lookup(Zone, domain[i])
                success == ~resp.rejected /\ resp.ok /\ resp.Status = 0
                keep    == {k \in 1..Len(resp.Answer) :
                               /\ resp.Answer[k].type = 16
                               /\ Len(Unquoted(resp.Answer[k].data)) >= 6
                               /\ Sub(Unquoted(resp.Answer[k].data), 1, 6) = vSpf1}
            IN  /\ phase[i] = "Failed" <=> ~success
                /\ success /\ ~resp.hasAnswer => spfRecords[i] = <<>>
                /\ success /\ resp.hasAnswer => IsSelection(spfRecords[i], resp.Answer, keep)

\* of seven answers (a CNAME, a verification text, a quoted and an unquoted
\* SPF record, an SPF text of type 5, a text with a leading space, a third
\* SPF record) the three SPF records came back, in order
C8_Witness ==
    \E i \in Checks :
        /\ Zone = AnswerZone
        /\ domain[i] = dX
        /\ phase[i] = "Ready"
        /\ spfRecords[i] = << <<"v","=","s","p","f","1"," ","m","x"," ","-","a","l","l">>, <<"v","=","s","p","f","1"," ","~","a","l","l">>, <<"v","=","s","p","f","1"," ","i","n","c","l","u","d","e",":","y",".","i","o"," ","-","a","l","l">> >>

(***************************************************************************)
(* C9  fetchIncludedDomain never raises: whatever the resolver does        *)
(* (records, no record, transport, HTTP or query failure) it returns a     *)
(* string: the first SPF record when there is one, and otherwise a         *)
(* placeholder message.                                                    *)
(***************************************************************************)
C9_FetchIncludedNeverRaises ==
    \A k \in 1..Len(drills) :
        ~drills[k].waiting =>
            LET d == drills[k].domain
            IN  /\ ~drills[k].raised
                /\ drills[k].value # <<>>
                /\ HasRecord(d) => drills[k].value = FirstRecord(d)
                /\ ~HasRecord(d) =>
                      \/ drills[k].value = msgNoRecord
                      \/ /\ Unresolvable(d)
                         /\ LitAt(drills[k].value, 1, msgErrorPrefix)

\* the item of an include whose request was rejected shows a message
C9_Witness ==
    \E k \in 1..Len(drills) :
        /\ ~drills[k].waiting
        /\ Lookup(Zone, drills[k].domain).rejected
        /\ drills[k].value = <<"E","r","r","o","r",":"," ","F","a","i","l","e","d"," ","t","o"," ","f","e","t","c","h">>

(***************************************************************************)
(* C10  Every checkSPF call follows                                        *)
(*   Idle -> Validating -> Resolving -> (NotFound | CountingLookups ->     *)
(*   Ready) | Failed:                                                      *)
(* provided every request of the resolver settles, a call that was made    *)
(* reaches one of the terminal states NotFound, Ready or Failed; it enters *)
(* CountingLookups only after resolving returned at least one SPF record;  *)
(* and once it is in a terminal state it makes no further transition.      *)
(***************************************************************************)
Transitions ==
    { <<"Idle", "Validating">>, <<"Validating", "Resolving">>, <<"Validating", "Failed">>,
      <<"Resolving", "NotFound">>, <<"Resolving", "CountingLookups">>,
      <<"Resolving", "Failed">>, <<"CountingLookups", "Ready">> }

FollowsMachine(i) ==
    /\ path[i][1] = "Idle"
    /\ path[i][Len(path[i])] = phase[i]
    /\ \A k \in 1..(Len(path[i]) - 1) : <<path[i][k], path[i][k + 1]>> \in Transitions
    /\ "CountingLookups" \in Range(path[i]) =>
          /\ Len(spfRecords[i]) >= 1
          /\ spfRecords[i] = fetchSPFRecords(Lookup(Zone, domain[i])).records

StaysTerminal ==
    \A i \in Checks :
        phase[i] \in Terminal => phase'[i] = phase[i] /\ path'[i] = path[i]

\* C10: every check follows the state machine, enters CountingLookups only
\* with at least one SPF record, reaches a terminal state when every request
\* settles, and makes no transition after that
C10_CheckLifecycle ==
    /\ [](\A i \in Checks : FollowsMachine(i))
    /\ [][StaysTerminal]_vars
    /\ \A i \in Checks : (phase[i] # "Idle") ~> (phase[i] \in Terminal)

\* a check that went through every state of the Ready branch
C10_Witness ==
    \E i \in Checks :
        /\ path[i] = <<"Idle", "Validating", "Resolving", "CountingLookups", "Ready">>
        /\ Len(trav[i].resolved) >= 1

(***************************************************************************)
(* C11  The visited set is created fresh for each top-level                *)
(* countDNSLookups call and belongs to that call tree only: when two       *)
(* checks run interleaved, a name marked by one traversal is never treated *)
(* as visited by the other, so each traversal returns the count it returns *)
(* when it runs alone.                                                     *)
(***************************************************************************)
\* the value of a traversal of spfRecord that runs alone, from a new
\* visited set, every request settled
CountAlone(spfRecord, d) == Completed(Run(Call(NewTraversal, spfRecord, 0, d)))

\* C11: the visited set of a traversal holds only names that traversal
\* itself asked for, and the value it returns is the value of the same
\* traversal run alone
C11_VisitedPerTraversal ==
    \A i \in Checks :
        /\ trav[i].visited \subseteq Range(trav[i].resolved)
        /\ JustReturned(i) =>
              trav[i].result = CountAlone(spfRecords[i][1], domain[i])

\* the second check counted x.io to the end while the first one was still
\* waiting for y.io, a name both traversals mark
C11_Witness ==
    /\ Zone = CycleZone
    /\ phase[1] = "CountingLookups"
    /\ trav[1].waiting
    /\ dY \in trav[1].visited
    /\ JustReturned(2)
    /\ domain[2] = dX
    /\ dY \in trav[2].visited

(***************************************************************************)
(* C12  Redirect targets are never followed by the count: each redirect=   *)
(* token adds exactly one unit of direct cost, the target of a redirect is *)
(* never resolved by countDNSLookups and never added to visited, and the   *)
(* record of the target does not affect the total.                         *)
(***************************************************************************)
IsRedirectToken(t) == HasPrefix(t, kwRedirect)

\* the record without its redirect= tokens
WithoutRedirectTokens(spfRecord) ==
    Join(SelectSeq(Tokens(spfRecord), LAMBDA t : ~IsRedirectToken(t)))

\* the names the zone's records redirect to and no record includes
RedirectOnlyTargets ==
    LET recs == {FirstRecord(d) : d \in {e \in DOMAIN Zone : HasRecord(e)}}
    IN  UNION {Range(Captures(r, kwRedirect)) : r \in recs}
        \ UNION {Range(includeDomains(r)) : r \in recs}

\* the value countDNSLookups returns for a traversal when the resolver
\* serves zone, every request settled
RECURSIVE CompletedIn(_, _)
CompletedIn(zone, tr) ==
    IF tr.result # NoResult THEN tr.result
    ELSE CompletedIn(zone, Resume(tr, Lookup(zone, tr.pending)))

\* the zone without the names in gone
ZoneWithout(gone) == [d \in DOMAIN Zone \ gone |-> Zone[d]]

\* the redirect targets are left alone: not asked for, not marked, and the
\* total is the same when they have no record at all
RedirectsNotFollowed(i) ==
    /\ RedirectOnlyTargets \cap (Range(trav[i].resolved) \cup trav[i].visited) = {}
    /\ trav[i].result =
          CompletedIn(ZoneWithout(RedirectOnlyTargets),
                      Run(Call(NewTraversal, spfRecords[i][1], 0, domain[i])))

\* each redirect= token of a counted record adds one to its direct cost
RedirectsCostOne(i) ==
    \A k \in 1..Len(trav[i].counted) :
        LET rec == FirstRecord(trav[i].counted[k].domain)
        IN  DirectCost(rec) = DirectCost(WithoutRedirectTokens(rec))
                              + NumTokens(rec, IsRedirectToken)

\* C12: a redirect= token costs one lookup and its target is never followed
C12_RedirectsNotFollowed ==
    \A i \in Checks : JustReturned(i) => RedirectsCostOne(i) /\ RedirectsNotFollowed(i)

(***************************************************************************)
(* C13  Within one countDNSLookups traversal a domain is added to visited  *)
(* before it is resolved and a domain in visited is skipped, so no include *)
(* domain is resolved more than once in that traversal, whatever the shape *)
(* of the include graph and even when a resolution fails.                  *)
(***************************************************************************)
\* C13: every name a traversal asks for is in visited when the request is
\* made, stays there, and is asked for once
C13_ResolvedOnce ==
    \A i \in Checks :
        /\ Range(trav[i].resolved) = trav[i].visited
        /\ trav[i].waiting =>
              /\ trav[i].pending \in trav[i].visited
              /\ trav[i].resolved[Len(trav[i].resolved)] = trav[i].pending
        /\ \A d \in Range(trav[i].resolved) : Occurrences(trav[i].resolved, d) = 1

\* p.io includes q.io twice and q.io does not exist: the count has returned
\* after one request for q.io
C13_Witness ==
    \E i \in Checks :
        /\ dP \in DOMAIN Zone
        /\ dQ \in DOMAIN Zone
        /\ Zone[dP] = IncRecord(<<dQ, dQ>>)
        /\ Zone[dQ] = NxDomain
        /\ domain[i] = dP
        /\ phase[i] = "Ready"
        /\ trav[i].resolved = <<dQ>>

(***************************************************************************)
(* C14  A check whose trimmed, lower-cased input is empty or fails         *)
(* validateDomain ends in the failure state with a message, without a      *)
(* request to the resolver, without the loading state and without          *)
(* disabling the check button.                                             *)
(***************************************************************************)
\* the domain of check i is empty or not a valid domain name
Rejects(d) == d = <<>> \/ ~validateDomain(d)

\* the step that starts check i on such an input
RejectedAtOnce(i) ==
    (phase[i] = "Idle" /\ phase'[i] # "Idle" /\ Rejects(domain'[i])) =>
        /\ phase'[i] = "Failed"
        /\ path'[i] = <<"Idle", "Validating", "Failed">>
        /\ resultsDiv'.kind = "error"
        /\ resultsDiv'.by = i
        /\ resultsDiv'.message # <<>>
        /\ checkDisabled' = checkDisabled
        /\ trav' = trav
        /\ spfRecords' = spfRecords

\* C14: a check of an empty or invalid domain fails in the step that starts
\* it, with a message, and it never asks the resolver, never shows the
\* loading panel and never touches the check button
C14_InvalidInputFailsAtOnce ==
    /\ [][\A i \in Checks : RejectedAtOnce(i)]_vars
    /\ [](\A i \in Checks :
            (phase[i] # "Idle" /\ Rejects(domain[i])) =>
                /\ path[i] = <<"Idle", "Validating", "Failed">>
                /\ trav[i] = NewTraversal
                /\ spfRecords[i] = <<>>)

\* x_y.io was rejected while the check of x.io was waiting for the resolver:
\* the button is still disabled by that check, and the panel shows the error
C14_Witness ==
    /\ phase[1] = "Resolving"
    /\ phase[2] = "Failed"
    /\ domain[2] = <<"x","_","y",".","i","o">>
    /\ checkDisabled
    /\ resultsDiv = showError(2, msgInvalid)

(***************************************************************************)
(* C15  An unqualified all token is treated like +all for display: the     *)
(* explanation attached to the span of a bare all is the catalog           *)
(* explanation of +all.                                                    *)
(***************************************************************************)
\* the record has a token that is all, without a qualifier
HasBareAll(spfRecord) == \E k \in 1..Len(Tokens(spfRecord)) : Tokens(spfRecord)[k] = wordAll

\* the span of a bare all that carries explanation expl
BareAllSpan(expl) == SpanHtml(wordAll, <<>>, expl, wordAll)

\* C15: in the results, the span of a bare all carries the explanation of
\* +all
C15_BareAllLikePlusAll ==
    resultsDiv.kind = "results" =>
        \A j \in 1..Len(resultsDiv.records) :
            HasBareAll(resultsDiv.records[j]) =>
                CountLit(resultsDiv.markup[j],
                         BareAllSpan(getMechanismExplanation(<<"+","a","l","l">>))) >= 1

(***************************************************************************)
(* C16  Order independence of the count: for a fixed assignment of records *)
(* to domains, the value countDNSLookups returns does not depend on the    *)
(* order of the include: tokens inside any record, also when a domain lies *)
(* at depth 10 or deeper on one path and at a shallower depth on another.  *)
(***************************************************************************)
\* the record with its include: tokens in the opposite order, every other
\* token where it was
ReverseIncludes(spfRecord) ==
    LET toks == Tokens(spfRecord)
        at   == SelectSeq([k \in 1..Len(toks) |-> k], LAMBDA k : IsIncludeToken(toks[k]))
        Rank(k) == CHOOSE m \in 1..Len(at) : at[m] = k
    IN  Join([k \in 1..Len(toks) |->
                 IF IsIncludeToken(toks[k]) THEN toks[at[Len(at) + 1 - Rank(k)]]
                 ELSE toks[k]])

\* the response with the include: tokens of its quoted TXT answers reversed
ReorderedResponse(resp) ==
    IF ~resp.hasAnswer THEN resp
    ELSE [resp EXCEPT !.Answer =
            [k \in 1..Len(resp.Answer) |->
                LET a == resp.Answer[k]
                IN  IF a.type = TypeTXT /\ a = Txt(StripQuotes(a.data))
                    THEN Txt(ReverseIncludes(StripQuotes(a.data)))
                    ELSE a]]

ReorderedZone == [d \in DOMAIN Zone |-> ReorderedResponse(Zone[d])]

\* C16: the count of a record is the count of the same record in the zone
\* whose records name the same includes in the opposite order
C16_OrderIndependent ==
    \A i \in Checks :
        JustReturned(i) =>
            trav[i].result =
                CompletedIn(ReorderedZone,
                            Run(Call(NewTraversal, ReverseIncludes(spfRecords[i][1]),
                                     0, domain[i])))

(***************************************************************************)
(* C17  When a second check is started while an earlier one is still       *)
(* waiting for the resolver (an example button does not look at the        *)
(* disabled check button), then after both have finished the panel shows   *)
(* the outcome of the check that was started last, and the check button is *)
(* never enabled while a check is in flight.                               *)
(***************************************************************************)
\* check i has made a request and has not finished
InFlight(i) == phase[i] \in {"Resolving", "CountingLookups"}

\* C17: the button is disabled while a check is in flight, and when every
\* check that was started has finished the panel is the one the last of
\* them wrote
C17_LastCheckWins ==
    /\ (\E i \in Checks : InFlight(i)) => checkDisabled
    /\ (nChecks >= 1 /\ \A i \in 1..nChecks : phase[i] \in Terminal) =>
          resultsDiv.by = nChecks

====
